---- MODULE Spec2Model ----
(***************************************************************************)
(* Saveit: the source store (database.rs), the shared source cache and the *)
(* background tasks that the UI handlers spawn (database.rs, list_page.rs).*)
(*                                                                         *)
(* Three specifications are defined:                                       *)
(*   SpecStore  the store API (insert_source, delete_source, update_source,*)
(*              get_all_sources) called directly with inputs drawn from    *)
(*              small sets;                                                *)
(*   Spec       the handlers of Save, Edit/Save and Delete: UI clicks spawn*)
(*              background tasks whose store operations and cache writes   *)
(*              interleave freely;                                         *)
(*   SpecImport the Import button: one task per import with an insert      *)
(*              sub-task per entry; several imports may run at once.       *)
(***************************************************************************)
EXTENDS Integers, Sequences, FiniteSets, TLC

(* ------------------------------ bounds --------------------------------- *)

\* most tasks started in one run of Spec: the tasks the handlers spawn and
\* the refreshes the foreground runs
MaxTasks == 2

\* most inserts issued in one run of SpecImport: each entry of an imported
\* file counts as one (a file without entries too)
MaxInserts == 2

\* most direct store calls in one run of SpecStore
MaxCalls == 4

\* most changes made to the config file from outside of get_config in one
\* run of SpecConfig
MaxEdits == 2

\* most starts of the application in one run of SpecVersion
MaxRuns == 2

\* most clicks on Save of the settings page in one run of SpecSettings
MaxSaves == 2

(* ------------------------------ Source --------------------------------- *)

\* Source::default(): id -1 marks a Source that was never persisted
SENTINEL_ID == -1

\* A String is a sequence of symbols: a symbol is a punctuation character,
\* a digit, or a word of letters, digits and underscores that the code
\* never splits.  A NaiveDate is a calendar date [y, m, d].
Date(y, m, d) == [y |-> y, m |-> m, d |-> d]

\* Two sample Sources; they differ in every field that update can change.
\* SrcA carries an id that collides with the first id the store hands out,
\* SrcB carries the sentinel, an empty author and an unknown publication
\* date.
SrcA ==
    [id |-> 1, title |-> <<"Foo">>, url |-> <<"uA">>, author |-> <<"aA">>,
     published_date |-> Date(2020, 5, 1), viewed_date |-> Date(2021, 1, 2),
     published_date_unknown |-> FALSE, comment |-> <<"cA">>]

SrcB ==
    [id |-> SENTINEL_ID, title |-> <<"tB">>, url |-> <<"uB">>, author |-> <<>>,
     published_date |-> Date(2019, 12, 31), viewed_date |-> Date(2020, 2, 29),
     published_date_unknown |-> TRUE, comment |-> <<"cB">>]

Samples == {SrcA, SrcB}

\* placeholder for the source field of a task that carries none
NoSource ==
    [id |-> 0, title |-> <<>>, url |-> <<>>, author |-> <<>>,
     published_date |-> Date(1, 1, 1), viewed_date |-> Date(1, 1, 1),
     published_date_unknown |-> FALSE, comment |-> <<>>]

\* the seven columns that INSERT and UPDATE bind
Fields(s) ==
    <<s.title, s.url, s.author, s.published_date, s.viewed_date,
      s.published_date_unknown, s.comment>>

WithId(s, k) == [s EXCEPT !.id = k]

(* ------------------------------ dates ---------------------------------- *)

IsLeapYear(y) == (y % 4 = 0 /\ y % 100 # 0) \/ y % 400 = 0

DaysInMonth(y, m) ==
    CASE m \in {4, 6, 9, 11} -> 30
      [] m = 2 -> IF IsLeapYear(y) THEN 29 ELSE 28
      [] OTHER -> 31

\* NaiveDate::ordinal: the day of the year, from 1
Ordinal(date) ==
    LET RECURSIVE Before(_)
        Before(m) == IF m = 1 THEN 0 ELSE DaysInMonth(date.y, m - 1) + Before(m - 1)
    IN  Before(date.m) + date.d

\* NaiveDate::num_days_from_ce: days since 0000-12-31, so that 0001-01-01
\* is day 1
NumDaysFromCe(date) ==
    LET p == date.y - 1
    IN  365 * p + (p \div 4) - (p \div 100) + (p \div 400) + Ordinal(date)

\* the date of the given day of the given year
DateOfOrdinal(y, ord) ==
    LET RECURSIVE Walk(_, _)
        Walk(m, left) ==
            IF left <= DaysInMonth(y, m) THEN Date(y, m, left)
            ELSE Walk(m + 1, left - DaysInMonth(y, m))
    IN  Walk(1, ord)

\* NaiveDate::from_num_days_from_ce_opt: the date of a day count, None when
\* the date is outside of NaiveDate's years
FromNumDaysFromCeOpt(n) ==
    LET z    == n - 1
        era  == z \div 146097
        r    == z % 146097
        c    == IF r \div 36524 > 3 THEN 3 ELSE r \div 36524
        r2   == r - c * 36524
        q4   == r2 \div 1461
        r3   == r2 % 1461
        y1   == IF r3 \div 365 > 3 THEN 3 ELSE r3 \div 365
        year == 400 * era + 100 * c + 4 * q4 + y1 + 1
        ord  == r3 - y1 * 365 + 1
    IN  IF year \in -262143 .. 262142
        THEN [some |-> TRUE, date |-> DateOfOrdinal(year, ord)]
        ELSE [some |-> FALSE, date |-> Date(1, 1, 1)]

(* ------------------------------ helpers -------------------------------- *)

Range(f) == {f[i] : i \in DOMAIN f}

Ids(rows) == {rows[i].id : i \in DOMAIN rows}

\* number of rows with the given column values
CountFields(rows, f) == Cardinality({i \in DOMAIN rows : Fields(rows[i]) = f})

\* same rows field by field, in any order
SameRows(a, b) ==
    /\ Len(a) = Len(b)
    /\ \A r \in Range(a) \cup Range(b) :
          Cardinality({i \in DOMAIN a : a[i] = r})
              = Cardinality({i \in DOMAIN b : b[i] = r})

(* ------------------------ Entry and the JSON file ---------------------- *)

\* mutant: both dates of the Entry are taken from published_date
EntryFromSourceOneDate(value) ==
    [id |-> value.id, title |-> value.title, url |-> value.url,
     author |-> value.author,
     published_date |-> NumDaysFromCe(value.published_date),
     viewed_date |-> NumDaysFromCe(value.published_date),
     published_date_unknown |-> value.published_date_unknown,
     comment |-> value.comment]

\* impl From<Source> for Entry: the dates become day counts
EntryFromSource(value) ==
    [id |-> value.id, title |-> value.title, url |-> value.url,
     author |-> value.author,
     published_date |-> NumDaysFromCe(value.published_date),
     viewed_date |-> NumDaysFromCe(value.viewed_date),
     published_date_unknown |-> value.published_date_unknown,
     comment |-> value.comment]

\* both day counts of the Entry are dates: the unwrap() calls of into() do
\* not panic
EntryDatesOk(entry) ==
    /\ FromNumDaysFromCeOpt(entry.published_date).some
    /\ FromNumDaysFromCeOpt(entry.viewed_date).some

\* impl Into<Source> for Entry: the day counts become dates
SourceFromEntry(entry) ==
    [id |-> entry.id, title |-> entry.title, url |-> entry.url,
     author |-> entry.author,
     published_date |-> FromNumDaysFromCeOpt(entry.published_date).date,
     viewed_date |-> FromNumDaysFromCeOpt(entry.viewed_date).date,
     published_date_unknown |-> entry.published_date_unknown,
     comment |-> entry.comment]

\* the members of the JSON object of an Entry, in the order of the struct
EntryKeys ==
    <<"id", "title", "url", "author", "published_date", "viewed_date",
      "published_date_unknown", "comment">>

\* serde_json::to_string_pretty(&Vec<Entry>): an array of objects, each a
\* list of members <<key, value>>
ToJson(entries) ==
    [i \in DOMAIN entries |->
        [k \in DOMAIN EntryKeys |->
            <<EntryKeys[k],
              CASE k = 1 -> entries[i].id
                [] k = 2 -> entries[i].title
                [] k = 3 -> entries[i].url
                [] k = 4 -> entries[i].author
                [] k = 5 -> entries[i].published_date
                [] k = 6 -> entries[i].viewed_date
                [] k = 7 -> entries[i].published_date_unknown
                [] OTHER -> entries[i].comment>>]]

\* the value of member `key` of a JSON object that has it
Member(obj, key) == obj[CHOOSE k \in DOMAIN obj : obj[k][1] = key][2]

\* every object of the array has the eight members of an Entry
JsonOk(json) ==
    \A i \in DOMAIN json :
        \A k \in DOMAIN EntryKeys : \E n \in DOMAIN json[i] : json[i][n][1] = EntryKeys[k]

\* serde_json::from_str::<Vec<Entry>>: members are found by key
FromJson(json) ==
    [i \in DOMAIN json |->
        [id |-> Member(json[i], "id"), title |-> Member(json[i], "title"),
         url |-> Member(json[i], "url"), author |-> Member(json[i], "author"),
         published_date |-> Member(json[i], "published_date"),
         viewed_date |-> Member(json[i], "viewed_date"),
         published_date_unknown |-> Member(json[i], "published_date_unknown"),
         comment |-> Member(json[i], "comment")]]

(* ------------------------------ the store ------------------------------ *)

\* The id the store gives the next inserted row: the table's counter, which
\* only grows, so that an id is never handed out twice.
StoreNextId(rows, seq) == seq + 1

\* mutant: the id column is bound from the input when it carries one
InsertSourceBindsId(rows, seq, source) ==
    Append(rows, WithId(source, IF source.id > 0 THEN source.id
                                 ELSE StoreNextId(rows, seq)))

\* insert_source: INSERT of the seven columns; the id column is not bound
InsertSource(rows, seq, source) ==
    Append(rows, WithId(source, StoreNextId(rows, seq)))

\* get_all_sources: SELECT * FROM sources
GetAllSources(rows) == rows

\* mutant: the comparison of the WHERE clause is <= instead of =
DeleteSourceUpTo(rows, id) ==
    SelectSeq(rows, LAMBDA r : r.id > id)

\* delete_source: DELETE FROM sources WHERE id = $1
DeleteSource(rows, id) ==
    SelectSeq(rows, LAMBDA r : r.id # id)

\* mutant: the comment column is left out of the SET list
UpdateSourceNoComment(rows, id, source) ==
    [i \in DOMAIN rows |->
        IF rows[i].id = id
        THEN [WithId(source, id) EXCEPT !.comment = rows[i].comment]
        ELSE rows[i]]

\* update_source: UPDATE sources SET <seven columns> WHERE id = $8
UpdateSource(rows, id, source) ==
    [i \in DOMAIN rows |-> IF rows[i].id = id THEN WithId(source, id) ELSE rows[i]]

\* mutant: zero affected rows are reported as an error
UpdateResultNotFound(rows, id) ==
    IF id \in Ids(rows) THEN "ok" ELSE "err"

\* update_source's result when the statement ran: execute(..).map(|_| ()),
\* the number of affected rows is dropped
UpdateResult(rows, id) == "ok"

\* delete_source's result when the statement ran: execute(..).map(|_| ())
DeleteResult(rows, id) == "ok"

(* ------------------------------ Config --------------------------------- *)

\* Config::default()
DefaultConfig ==
    [language |-> <<"en">>, format_standard |-> "Default",
     custom_format |-> <<"CUSTOM", " ", "FORMAT">>]

\* The config file: absent, holding text that is no Config, or holding a
\* serialized Config.
AbsentFile == [st |-> "absent", val |-> DefaultConfig]
CorruptFile == [st |-> "corrupt", val |-> DefaultConfig]
ValidFile(c) == [st |-> "valid", val |-> c]

\* a Config that the settings page saved: the Custom standard with a
\* template
SavedConfig ==
    [language |-> <<"en">>, format_standard |-> "Custom",
     custom_format |-> <<"{", "TITLE", "}">>]

Configs == {DefaultConfig, SavedConfig}

\* what the file may hold
FileStates == {AbsentFile, CorruptFile} \cup {ValidFile(c) : c \in Configs}

\* confy::load(CONFIG_NAME, None) when no I/O error occurs: a file that is
\* absent is created with the defaults, a file that does not parse gives
\* ConfyError::BadTomlData
ConfyLoad(file) ==
    CASE file.st = "absent"  -> [err |-> "none", config |-> DefaultConfig,
                                 file |-> ValidFile(DefaultConfig)]
      [] file.st = "corrupt" -> [err |-> "BadTomlData", config |-> DefaultConfig,
                                 file |-> file]
      [] OTHER               -> [err |-> "none", config |-> file.val, file |-> file]

\* confy::store(CONFIG_NAME, None, config) when no I/O error occurs
ConfyStore(config) == ValidFile(config)

\* mutant: the reset writes the Config with the Custom standard
ResetValueCustom == [DefaultConfig EXCEPT !.format_standard = "Custom"]

\* let default = Config::default(): what the reset writes
ResetValue == DefaultConfig

(* ------------------------------ text ----------------------------------- *)

\* the symbols that are no word characters
Punct == {"{", "}", "(", ")", "$", "%", ".", ":", " ", "-", "[", "]"}

DigitSyms == <<"0", "1", "2", "3", "4", "5", "6", "7", "8", "9">>

IsDigit(c) == \E i \in DOMAIN DigitSyms : DigitSyms[i] = c

\* [0-9A-Za-z_]
IsWord(c) == c \notin Punct

\* the decimal digits of a natural number, at least `width` of them
Digits(n, width) ==
    LET RECURSIVE Go(_, _)
        Go(k, w) ==
            IF k < 10 /\ w <= 1 THEN <<DigitSyms[k + 1]>>
            ELSE Go(k \div 10, w - 1) \o <<DigitSyms[(k % 10) + 1]>>
    IN  Go(n, width)

\* i64::to_string
I64ToString(n) == IF n < 0 THEN <<"-">> \o Digits(-n, 1) ELSE Digits(n, 1)

\* CARGO_PKG_VERSION: "<major>.<minor>.<patch>"
PkgVersion(v) ==
    I64ToString(v.major) \o <<".">> \o I64ToString(v.minor) \o <<".">>
        \o I64ToString(v.patch)

\* db_version!(): "sources-{}.db" with the first three bytes of the version
DbVersion(v) == <<"sources-">> \o SubSeq(PkgVersion(v), 1, 3) \o <<".db">>

\* the versions of the application that are started
Versions ==
    [major : {0, 1, 10}, minor : {1, 2, 10, 12}, patch : {0, 3}]

\* "%d. %m. %Y"
DefaultDateFormat == <<"%", "d", ".", " ", "%", "m", ".", " ", "%", "Y">>

\* The specifiers of chrono's strftime that the templates of this model
\* use.  Any other symbol after "%" stands for a letter that is no
\* specifier (such as %Q).
Specifiers == {"Y", "m", "d", "%"}

\* the pattern parses: every "%" is followed by a specifier
StrftimeOk(f) ==
    LET RECURSIVE Ok(_)
        Ok(i) ==
            IF i > Len(f) THEN TRUE
            ELSE IF f[i] # "%" THEN Ok(i + 1)
            ELSE IF i + 1 > Len(f) \/ f[i + 1] \notin Specifiers THEN FALSE
            ELSE Ok(i + 2)
    IN  Ok(1)

\* NaiveDate::format(f).to_string() for a pattern that parses: %Y the year,
\* %m and %d month and day with two digits, %% a percent sign, other
\* symbols as they are
Strftime(date, f) ==
    LET RECURSIVE Go(_)
        Go(i) ==
            IF i > Len(f) THEN <<>>
            ELSE IF f[i] # "%" THEN <<f[i]>> \o Go(i + 1)
            ELSE (CASE f[i + 1] = "Y" -> Digits(date.y, 4)
                    [] f[i + 1] = "m" -> Digits(date.m, 2)
                    [] f[i + 1] = "d" -> Digits(date.d, 2)
                    [] OTHER -> <<"%">>) \o Go(i + 2)
    IN  Go(1)

(* ------------------------------ regex ---------------------------------- *)

\* the patterns of Source::format, by the name between "{" and "}" or "("
FieldNames == <<"INDEX", "TITLE", "URL", "AUTHOR">>
DateNames == {"P_DATE", "V_DATE"}

\* the first index from `from` on that holds symbol c, 0 when there is none
IndexOf(text, c, from) ==
    LET RECURSIVE Go(_)
        Go(i) == IF i > Len(text) THEN 0
                 ELSE IF text[i] = c THEN i ELSE Go(i + 1)
    IN  Go(from)

\* Length of the match of the pattern of `name` that starts at index i of
\* text, 0 when there is none.
\*   r"\{NAME\}"           for a field name
\*   r"\{NAME\([^)]*\)}"    for a date name: [^)]* runs to the first ")",
\*                          which "}" must follow
MatchLen(text, i, name) ==
    IF i + 2 > Len(text) \/ text[i] # "{" \/ text[i + 1] # name THEN 0
    ELSE IF name \in DateNames
         THEN IF text[i + 2] # "(" THEN 0
              ELSE LET j == IndexOf(text, ")", i + 3)
                   IN  IF j # 0 /\ j + 1 <= Len(text) /\ text[j + 1] = "}"
                       THEN j + 2 - i ELSE 0
         ELSE IF text[i + 2] = "}" THEN 3 ELSE 0

\* the index of the leftmost match from `from` on, 0 when there is none
FirstMatch(text, name, from) ==
    LET RECURSIVE Go(_)
        Go(i) == IF i > Len(text) THEN 0
                 ELSE IF MatchLen(text, i, name) > 0 THEN i ELSE Go(i + 1)
    IN  Go(from)

\* the end of the run of word symbols that starts at index i
WordEnd(rep, i) ==
    LET RECURSIVE Go(_)
        Go(k) == IF k <= Len(rep) /\ IsWord(rep[k]) THEN Go(k + 1) ELSE k - 1
    IN  Go(i)

\* the name refers to capture group 0: it is a number and its value is 0
IsGroupZero(name) ==
    /\ name # <<>>
    /\ \A k \in DOMAIN name : name[k] = "0"

\* Replacer for &str (Captures::expand) for a pattern without capture
\* groups: "$$" is a dollar sign; "$name" and "${name}" are the text of
\* the capture group of that name or number, which is the whole match for
\* group 0 and empty for a group that does not exist; a "$" that no name
\* follows is kept.
Expand(rep, whole) ==
    LET RECURSIVE Go(_)
        Go(i) ==
            IF i > Len(rep) THEN <<>>
            ELSE IF rep[i] # "$" THEN <<rep[i]>> \o Go(i + 1)
            ELSE IF i + 1 <= Len(rep) /\ rep[i + 1] = "$"
                 THEN <<"$">> \o Go(i + 2)
            ELSE IF i + 1 <= Len(rep) /\ rep[i + 1] = "{"
                 THEN LET j == IndexOf(rep, "}", i + 2)
                      IN  IF j = 0 THEN <<"$">> \o Go(i + 1)
                          ELSE (IF IsGroupZero(SubSeq(rep, i + 2, j - 1))
                                THEN whole ELSE <<>>) \o Go(j + 1)
            ELSE LET e == WordEnd(rep, i + 1)
                 IN  IF e < i + 1 THEN <<"$">> \o Go(i + 1)
                     ELSE (IF IsGroupZero(SubSeq(rep, i + 1, e))
                           THEN whole ELSE <<>>) \o Go(e + 1)
    IN  Go(1)

\* Every match, leftmost first and not overlapping, replaced by `rep` as it
\* is: verbatim substitution, which the claims compare replace_all with.
Substitute(text, name, rep) ==
    LET RECURSIVE Go(_)
        Go(i) ==
            IF i > Len(text) THEN <<>>
            ELSE LET n == MatchLen(text, i, name)
                 IN  IF n > 0 THEN rep \o Go(i + n)
                     ELSE <<text[i]>> \o Go(i + 1)
    IN  Go(1)

\* Regex::replace_all(&out, text): every match, leftmost first and not
\* overlapping, is replaced by the expanded replacement
ReplaceAll(text, name, rep) ==
    LET RECURSIVE Go(_)
        Go(i) ==
            IF i > Len(text) THEN <<>>
            ELSE LET n == MatchLen(text, i, name)
                 IN  IF n > 0 THEN Expand(rep, SubSeq(text, i, i + n - 1)) \o Go(i + n)
                     ELSE <<text[i]>> \o Go(i + 1)
    IN  Go(1)

(* --------------------------- Source::format ---------------------------- *)

\* mutant: the author is pushed as it is, also when it is empty
AuthorSegmentPlain(s) == <<" ">> \o s.author

\* the author of the Default standard: " Unbekannt" for an empty author
AuthorSegment(s) ==
    IF s.author = <<>> THEN <<" ", "Unbekannt">> ELSE <<" ">> \o s.author

\* mutant: the year is pushed whatever published_date_unknown is
YearSegmentAlways(s) ==
    <<" ", "(">> \o Strftime(s.published_date, <<"%", "Y">>) \o <<")">>

\* the year of the Default standard: pushed if !published_date_unknown
YearSegment(s) ==
    IF ~s.published_date_unknown
    THEN <<" ", "(">> \o Strftime(s.published_date, <<"%", "Y">>) \o <<")">>
    ELSE <<>>

\* FormatStandard::Default
FormatDefault(s) ==
    <<"[">> \o I64ToString(s.id) \o <<"]">>
        \o AuthorSegment(s)
        \o YearSegment(s)
        \o <<":", " ">> \o s.title
        \o <<" ", "URL", ":", " ">> \o s.url
        \o <<" ", "[", "Stand", ":", " ">>
        \o Strftime(s.viewed_date, DefaultDateFormat) \o <<"]">>

\* regex.captures(&config.custom_format): the pattern between "(" and ")"
\* of the first match; the default pattern when there is no match or the
\* pattern is empty
DateFormatOf(template, name) ==
    LET i == FirstMatch(template, name, 1)
        f == SubSeq(template, i + 3, i + MatchLen(template, i, name) - 3)
    IN  IF i = 0 \/ f = <<>> THEN DefaultDateFormat ELSE f

\* the four replace(..) calls for INDEX, TITLE, URL and AUTHOR, in order
FieldStage(template, s) ==
    ReplaceAll(
        ReplaceAll(
            ReplaceAll(
                ReplaceAll(template, "INDEX", I64ToString(s.id)),
                "TITLE", s.title),
            "URL", s.url),
        "AUTHOR", s.author)

\* mutant: the published date is rendered whatever published_date_unknown is
PublishedTextAlways(s, f) == Strftime(s.published_date, f)

\* the replacement of {P_DATE(*)}
PublishedText(s, f) ==
    IF s.published_date_unknown THEN <<"Unknown">>
    ELSE Strftime(s.published_date, f)

\* to_string() of the two formatted dates does not panic: the viewed date
\* is always formatted, the published date unless it is unknown
DatesOk(template, s) ==
    /\ StrftimeOk(DateFormatOf(template, "V_DATE"))
    /\ s.published_date_unknown \/ StrftimeOk(DateFormatOf(template, "P_DATE"))

\* FormatStandard::Custom on the template that get_config returned; ok is
\* FALSE when the call panics
FormatCustom(s, template) ==
    IF ~DatesOk(template, s) THEN [ok |-> FALSE, out |-> <<>>]
    ELSE [ok |-> TRUE,
          out |-> ReplaceAll(
                      ReplaceAll(FieldStage(template, s), "P_DATE",
                                 PublishedText(s, DateFormatOf(template, "P_DATE"))),
                      "V_DATE",
                      Strftime(s.viewed_date, DateFormatOf(template, "V_DATE")))]

\* Config::get_config() run without interference and without I/O errors:
\* the Config it returns and the file it leaves
GetConfigRun(file) ==
    LET r == ConfyLoad(file)
    IN  IF r.err = "none" THEN [config |-> r.config, file |-> r.file]
        ELSE LET again == ConfyLoad(ConfyStore(ResetValue))
             IN  [config |-> again.config, file |-> again.file]

\* placeholders
Ph(name) == <<"{", name, "}">>
DatePh(name, f) == <<"{", name, "(">> \o f \o <<")", "}">>

\* custom templates
Templates ==
    { Ph("INDEX") \o <<":", " ">> \o Ph("TITLE") \o <<" ", "(">>
          \o DatePh("P_DATE", <<"%", "Y">>) \o <<")">>,
      DefaultConfig.custom_format,
      Ph("AUTHOR") \o <<" ">> \o Ph("URL") \o <<" ">> \o DatePh("V_DATE", <<>>)
          \o <<" ">> \o DatePh("P_DATE", <<>>),
      DatePh("P_DATE", <<"%", "Y">>) \o <<" ">> \o DatePh("P_DATE", <<"%", "m">>),
      DatePh("V_DATE", <<"%", "d">>) \o <<"-">> \o DatePh("V_DATE", <<"%", "Y">>),
      DatePh("P_DATE", <<"%", "Q">>),
      Ph("TITLE") \o <<" ">> \o DatePh("V_DATE", <<"%", "Q">>),
      Ph("TITLE") \o Ph("TITLE") \o <<" ">> \o Ph("INDEX"),
      <<"{", "P_DATE", "(", "%", "Y", " ", "{", "TITLE">>,
      DatePh("P_DATE", <<"%", "d", "-", "%", "m">>) \o <<" ">>
          \o DatePh("V_DATE", <<"%", "%">>),
      Ph("TITLE") \o <<"URL", "}", " ">> \o Ph("AUTHOR") }

CustomConfig(template) ==
    [language |-> <<"en">>, format_standard |-> "Custom", custom_format |-> template]

\* the Sources that are formatted
FormatSources ==
    { [id |-> i, title |-> ti, url |-> <<"uA">>, author |-> au,
       published_date |-> Date(2020, 5, 1), viewed_date |-> Date(2021, 1, 2),
       published_date_unknown |-> u, comment |-> <<>>] :
        i \in {3, SENTINEL_ID, 12},
        ti \in {<<"Foo">>, <<"Cost", " ", "$", "5">>, Ph("URL"), <<"{">>},
        au \in {<<>>, <<"aA">>},
        u \in BOOLEAN }

(* ------------------------------ state ---------------------------------- *)

VARIABLES
    db,        \* the rows of table sources, in table order
    seq,       \* the largest id the store has handed out
    dbVer,     \* history: the version of the store, the number of write
               \* statements that ran since Init
    issued,    \* history: the ids handed out by inserts, in order
    lastOp,    \* history (SpecStore): the last store call, its arguments,
               \* the rows before it and its result
    cache,     \* Application.sources_cache, the Vec behind the RwLock
    tasks,     \* the background tasks spawned so far
    view,      \* the foreground's last copy of the cache (read().to_vec())
    boot,      \* history: the rows the cache held at Init
    cacheVer,  \* history: the store version of the snapshot in the cache
    prevVer,   \* history: cacheVer before the last cache write (-1: none)
    nInst,     \* history: number of cache writes so far
    cfg,       \* the config file of confy (CONFIG_NAME)
    call,      \* the running call of Config::get_config, its position and
               \* history
    fmt,       \* history: the last call of Source::format, its arguments,
               \* the config file before it and its result
    exported,  \* the file the Export button wrote
    dataDir,   \* the database files in the data directory, and (history)
               \* the starts of the application that opened them
    saves      \* the background tasks that Config::save spawned

vars ==
    <<db, seq, dbVer, issued, lastOp, cache, tasks, view, boot, cacheVer,
      prevVer, nInst, cfg, call, fmt, exported, dataDir, saves>>

storeVars == <<db, seq, dbVer, issued>>
appVars == <<cache, tasks, view, boot, cacheVer, prevVer, nInst>>
auxVars == <<cfg, call, fmt, exported, dataDir, saves>>

\* No call of get_config is running.
\* pc:      "idle"; "load" before confy::load; "reset" in the BadTomlData
\*          branch, before confy::store; "done" returned; "panicked"
\* history: resets (confy::store calls of this call), start (the file when
\*          the call began), foreign (changes made to the file by others
\*          since the call began), edits (such changes since Init)
NoCall ==
    [pc |-> "idle", resets |-> 0, start |-> AbsentFile, foreign |-> 0,
     res |-> DefaultConfig, edits |-> 0]

\* format was not called yet.  template: the custom_format that get_config
\* returned to the call; io: get_config panicked in the call; ok: the call
\* returned
NoFormat ==
    [op |-> "none", source |-> NoSource, standard |-> "Default",
     before |-> AbsentFile, template |-> <<>>, io |-> FALSE, ok |-> TRUE,
     out |-> <<>>]

\* nothing was exported yet; sources (history): the Sources that the last
\* export wrote
\* res: how the last click on Export ended: "none" (no click yet), "ok",
\*      "create_failed" (File::create returned Err, the handler returned),
\*      "write_failed" (write_all returned Err, expect(..) panicked)
NoExport ==
    [written |-> FALSE, json |-> <<>>, sources |-> <<>>, res |-> "none"]

\* the application was never started: the data directory holds no file
\* runs (history): [version, file] of every establish_connection so far
EmptyDataDir == [files |-> {}, runs |-> <<>>]

\* the settings were never changed, nothing was formatted or exported
InitAux ==
    /\ cfg = ValidFile(DefaultConfig)
    /\ call = NoCall
    /\ fmt = NoFormat
    /\ exported = NoExport
    /\ dataDir = EmptyDataDir
    /\ saves = <<>>

NoOp ==
    [op |-> "none", id |-> 0, source |-> NoSource, before |-> <<>>,
     seqBefore |-> 0, io |-> FALSE, res |-> "ok"]

\* a store that was never written, no task, an empty cache
InitEmpty ==
    /\ db = <<>>
    /\ seq = 0
    /\ dbVer = 0
    /\ issued = <<>>
    /\ lastOp = NoOp
    /\ cache = <<>>
    /\ tasks = <<>>
    /\ view = <<>>
    /\ boot = <<>>
    /\ cacheVer = 0
    /\ prevVer = -1
    /\ nInst = 0

\* a store that was never written
InitStore ==
    /\ InitEmpty
    /\ InitAux

\* Stores that earlier runs of the program left behind, as [rows, seq]:
\* nothing; two inserts; two inserts and the delete of the first row.
StartStores ==
    LET one == InsertSource(<<>>, 0, SrcA)
        two == InsertSource(one, StoreNextId(<<>>, 0), SrcB)
        top == StoreNextId(one, StoreNextId(<<>>, 0))
    IN  { [rows |-> <<>>, seq |-> 0],
          [rows |-> two, seq |-> top],
          [rows |-> DeleteSource(two, two[1].id), seq |-> top] }

\* The application at rest: no task is running and the cache holds the rows
\* of the store.  Versions count the writes from here on.
Init ==
    /\ \E st \in StartStores :
          /\ db = st.rows
          /\ seq = st.seq
          /\ issued = [i \in 1 .. st.seq |-> i]
          /\ cache = GetAllSources(st.rows)
    /\ dbVer = 0
    /\ lastOp = NoOp
    /\ tasks = <<>>
    /\ view = cache
    /\ boot = cache
    /\ cacheVer = 0
    /\ prevVer = -1
    /\ nInst = 0
    /\ InitAux

(* ----------------------- store calls (as steps) ------------------------ *)

\* insert_source(source, pool), the statement runs
CallInsert(source) ==
    /\ db' = InsertSource(db, seq, source)
    /\ seq' = StoreNextId(db, seq)
    /\ issued' = Append(issued, db'[Len(db')].id)
    /\ dbVer' = dbVer + 1

\* delete_source(id, pool), the statement runs
CallDelete(id) ==
    /\ db' = DeleteSource(db, id)
    /\ dbVer' = dbVer + 1
    /\ UNCHANGED <<seq, issued>>

\* update_source(id, source, pool), the statement runs
CallUpdate(id, source) ==
    /\ db' = UpdateSource(db, id, source)
    /\ dbVer' = dbVer + 1
    /\ UNCHANGED <<seq, issued>>

\* what a store call returns when its statement ran
CallResult(op, id) ==
    CASE op = "delete" -> DeleteResult(db, id)
      [] op = "update" -> UpdateResult(db, id)
      [] OTHER -> "ok"

(* --------------------------- SpecStore --------------------------------- *)

\* ids a caller may pass: the sentinel, ids of present and of deleted rows,
\* and one id the store has not handed out yet
CallIds == {SENTINEL_ID} \cup (1 .. seq + 1)

\* Sources a caller may pass: the samples under every id of CallIds
CallSources == {WithId(s, k) : s \in Samples, k \in CallIds}

\* the record of a call: io is TRUE when the statement itself failed
\* (sqlx::Error from execute)
Called(op, id, source, io) ==
    lastOp' = [op |-> op, id |-> id, source |-> source, before |-> db,
               seqBefore |-> seq, io |-> io,
               res |-> IF io THEN "err" ELSE CallResult(op, id)]

StoreInsert ==
    /\ dbVer < MaxCalls
    /\ \E s \in CallSources :
          /\ CallInsert(s)
          /\ Called("insert", 0, s, FALSE)
    /\ UNCHANGED appVars
    /\ UNCHANGED auxVars

StoreDelete ==
    /\ dbVer < MaxCalls
    /\ \E k \in CallIds :
          /\ CallDelete(k)
          /\ Called("delete", k, NoSource, FALSE)
    /\ UNCHANGED appVars
    /\ UNCHANGED auxVars

StoreUpdate ==
    /\ dbVer < MaxCalls
    /\ \E k \in CallIds, s \in CallSources :
          /\ CallUpdate(k, s)
          /\ Called("update", k, s, FALSE)
    /\ UNCHANGED appVars
    /\ UNCHANGED auxVars

\* a call whose statement fails: nothing is written, the caller gets Err
StoreCallFails ==
    /\ dbVer < MaxCalls
    /\ \E op \in {"insert", "delete", "update"}, k \in CallIds, s \in CallSources :
          Called(op, IF op = "insert" THEN 0 ELSE k,
                 IF op = "delete" THEN NoSource ELSE s, TRUE)
    /\ UNCHANGED storeVars
    /\ UNCHANGED appVars
    /\ UNCHANGED auxVars

NextStore == StoreInsert \/ StoreDelete \/ StoreUpdate \/ StoreCallFails

SpecStore == InitStore /\ [][NextStore]_vars

(* ----------------------- background tasks ------------------------------ *)

\* what a task counts for in MaxInserts
Weight(t) == IF t.subs # <<>> THEN Len(t.subs) ELSE 1

\* number of inserts spawned so far
Inserts(ts) ==
    LET RECURSIVE Sum(_)
        Sum(i) == IF i = 0 THEN 0 ELSE Weight(ts[i]) + Sum(i - 1)
    IN  Sum(Len(ts))

\* kind: "save" (handle_source_save), "update" (handle_update_source),
\*       "delete" (handle_delete_source), "import" (the task of the Import
\*       button), "refresh" (update_source_cache, run by the foreground
\*       thread itself, which blocks on it)
\* pc:   "write"   before the task's store write
\*       "join"    import: in the loop that awaits the handles
\*       "fetch"   before get_all_sources
\*       "install" snapshot fetched, before the cache write
\*       "done"    finished; "aborted": ended by a panic (expect/unwrap)
\* subs: import: the insert sub-tasks, each "pending", "done" or "failed",
\*       with the store version its insert made (history)
\* history fields: wroteAt, fetchedAt (store versions), spawnVer and base
\* (version and rows of the store when an import was spawned), nref (number
\* of get_all_sources calls the task issued)
NewTask(kind, pc, id, source, subs) ==
    [kind |-> kind, pc |-> pc, id |-> id, source |-> source, subs |-> subs,
     snap |-> <<>>, wroteAt |-> 0, fetchedAt |-> 0,
     spawnVer |-> IF kind = "import" THEN dbVer ELSE 0,
     base |-> IF kind = "import" THEN db ELSE <<>>, nref |-> 0]

\* update_source_cache(): the foreground thread blocks on get_all_sources
\* and then assigns the cache
UpdateSourceCache == NewTask("refresh", "fetch", 0, NoSource, <<>>)

\* the foreground thread is not inside update_source_cache and has not
\* panicked in the Export handler
ForegroundIdle ==
    /\ \A t \in DOMAIN tasks : tasks[t].kind = "refresh" => tasks[t].pc = "done"
    /\ exported.res # "write_failed"

\* expect(..) has panicked on the foreground thread: the process is gone
Crashed ==
    \/ \E t \in DOMAIN tasks : tasks[t].kind = "refresh" /\ tasks[t].pc = "aborted"
    \/ exported.res = "write_failed"

\* get_source(): the pending input fields under the sentinel id
GetSource(s) == WithId(s, SENTINEL_ID)

\* mutant: the new snapshot is appended to the cached Vec
InstallSnapshotExtend(old, snap) == old \o snap

\* mutant: the cached Vec is overwritten element by element, and only up to
\* its old length
InstallSnapshotInPlace(old, snap) ==
    IF Len(old) = 0 \/ Len(snap) = 0 THEN snap
    ELSE [i \in 1 .. Len(old) |-> IF i <= Len(snap) THEN snap[i] ELSE old[i]]

\* *source_cache.write().unwrap() = <snapshot>: the Vec is replaced whole
InstallSnapshot(old, snap) == snap

\* mutant: only the first handle is awaited
ImportJoinedFirst(t) ==
    IF t.subs = <<>> THEN TRUE ELSE t.subs[1].st = "done"

\* the loop over the handles has ended with Ok from every handle: every
\* sub-task has completed
ImportJoined(t) == \A j \in DOMAIN t.subs : t.subs[j].st = "done"

\* mutant: the snapshot is fetched before the write
WriteFirstPcFetchFirst(kind) == "fetch"

\* where a mutation handler's task starts: with its store write
WriteFirstPc(kind) == "write"

(* ----------------------------- UI clicks -------------------------------- *)

\* Save on the start page: handle_source_save
ClickSave ==
    /\ ForegroundIdle
    /\ Len(tasks) < MaxTasks
    /\ \E s \in Samples :
          tasks' = Append(tasks,
                      NewTask("save", WriteFirstPc("save"), 0, GetSource(s), <<>>))
    /\ UNCHANGED <<cache, view, boot, cacheVer, prevVer, nInst, lastOp>>
    /\ UNCHANGED storeVars
    /\ UNCHANGED auxVars

\* Delete on a listed source: handle_delete_source(source.id, app) spawns
\* the delete task, then the foreground enters update_source_cache()
ClickDelete ==
    /\ ForegroundIdle
    /\ Len(tasks) + 2 <= MaxTasks
    /\ \E i \in DOMAIN cache :
          tasks' = tasks \o
              << NewTask("delete", WriteFirstPc("delete"), cache[i].id, NoSource, <<>>),
                 UpdateSourceCache >>
    /\ UNCHANGED <<cache, view, boot, cacheVer, prevVer, nInst, lastOp>>
    /\ UNCHANGED storeVars
    /\ UNCHANGED auxVars

\* Save in the edit modal of a listed source: the modal holds a clone of the
\* cached row with edited fields; handle_update_source(source.id, &source,
\* app) spawns the update task, then the foreground enters
\* update_source_cache()
ClickEditSave ==
    /\ ForegroundIdle
    /\ Len(tasks) + 2 <= MaxTasks
    /\ \E i \in DOMAIN cache, s \in Samples :
          tasks' = tasks \o
              << NewTask("update", WriteFirstPc("update"), cache[i].id,
                         WithId(s, cache[i].id), <<>>),
                 UpdateSourceCache >>
    /\ UNCHANGED <<cache, view, boot, cacheVer, prevVer, nInst, lastOp>>
    /\ UNCHANGED storeVars
    /\ UNCHANGED auxVars

\* The entry lists an imported file may hold: k entries SrcA, then n - k
\* entries SrcB.  The sub-tasks of one import run in parallel, so the
\* order of the entries in the file decides nothing.
ImportFiles ==
    {[j \in 1 .. n |-> IF j <= k THEN SrcA ELSE SrcB] :
        n \in 0 .. MaxInserts, k \in 0 .. MaxInserts}

\* Import: the file's entries become Sources (ids as in the file); one task
\* spawns an insert sub-task per Source
ClickImport ==
    /\ ForegroundIdle
    /\ \E f \in ImportFiles :
          /\ LET t == NewTask("import", "join", 0, NoSource,
                               [j \in DOMAIN f |->
                                   [source |-> f[j], st |-> "pending", at |-> 0]])
             IN  /\ Inserts(tasks) + Weight(t) <= MaxInserts
                 /\ tasks' = Append(tasks, t)
    /\ UNCHANGED <<cache, view, boot, cacheVer, prevVer, nInst, lastOp>>
    /\ UNCHANGED storeVars
    /\ UNCHANGED auxVars

\* Export: the Sources of the cache become Entries, their JSON is written to
\* the chosen file
Export ==
    /\ ForegroundIdle
    /\ LET sources == [i \in DOMAIN cache |-> EntryFromSource(cache[i])]
           file == [written |-> TRUE, json |-> ToJson(sources),
                    sources |-> cache, res |-> "ok"]
       IN  /\ exported # file
           /\ exported' = file
    /\ UNCHANGED <<cfg, call, fmt, dataDir, saves>>
    /\ UNCHANGED appVars
    /\ UNCHANGED <<storeVars, lastOp>>

\* Export, File::create(path) returns Err: the handler returns, the file is
\* not touched
ExportCreateFails ==
    /\ ForegroundIdle
    /\ exported.res # "create_failed"
    /\ exported' = [exported EXCEPT !.res = "create_failed"]
    /\ UNCHANGED <<cfg, call, fmt, dataDir, saves>>
    /\ UNCHANGED appVars
    /\ UNCHANGED <<storeVars, lastOp>>

\* Export, File::create(path) has truncated the file and write_all returns
\* Err: expect("Error writing to file") panics on the foreground thread.
\* The file holds no complete export.
ExportWriteFails ==
    /\ ForegroundIdle
    /\ exported' = [written |-> FALSE, json |-> <<>>, sources |-> <<>>,
                    res |-> "write_failed"]
    /\ UNCHANGED <<cfg, call, fmt, dataDir, saves>>
    /\ UNCHANGED appVars
    /\ UNCHANGED <<storeVars, lastOp>>

\* the Sources that Import makes of the file that Export wrote
ExportedSources ==
    LET entries == FromJson(exported.json)
    IN  [j \in DOMAIN entries |-> SourceFromEntry(entries[j])]

\* Import of the file that Export wrote: the file is parsed, its Entries
\* become Sources and one task spawns an insert sub-task per Source
ImportExported ==
    /\ ForegroundIdle
    /\ exported.written
    /\ JsonOk(exported.json)
    /\ \A j \in DOMAIN exported.json : EntryDatesOk(FromJson(exported.json)[j])
    /\ LET t == NewTask("import", "join", 0, NoSource,
                         [j \in DOMAIN ExportedSources |->
                             [source |-> ExportedSources[j], st |-> "pending", at |-> 0]])
       IN  /\ Inserts(tasks) + Weight(t) <= MaxInserts
           /\ tasks' = Append(tasks, t)
    /\ UNCHANGED <<cache, view, boot, cacheVer, prevVer, nInst, lastOp>>
    /\ UNCHANGED storeVars
    /\ UNCHANGED auxVars

\* render_sources: the foreground copies the cache under the read lock
Render ==
    /\ ForegroundIdle
    /\ view # cache
    /\ view' = cache
    /\ UNCHANGED <<cache, tasks, boot, cacheVer, prevVer, nInst, lastOp>>
    /\ UNCHANGED storeVars
    /\ UNCHANGED auxVars

(* ----------------------------- task steps ------------------------------- *)

Writing(t) == tasks[t].kind \in {"save", "update", "delete"} /\ tasks[t].pc = "write"

\* the store write of a mutation handler's task runs; an Err result makes
\* expect(..) panic
TaskWrite(t) ==
    /\ ~Crashed
    /\ Writing(t)
    /\ CASE tasks[t].kind = "save"   -> CallInsert(tasks[t].source)
         [] tasks[t].kind = "update" -> CallUpdate(tasks[t].id, tasks[t].source)
         [] tasks[t].kind = "delete" -> CallDelete(tasks[t].id)
    /\ tasks' = [tasks EXCEPT
                    ![t].pc = IF CallResult(tasks[t].kind, tasks[t].id) = "ok"
                              THEN "fetch" ELSE "aborted",
                    ![t].wroteAt = dbVer + 1]
    /\ UNCHANGED <<cache, view, boot, cacheVer, prevVer, nInst, lastOp>>
    /\ UNCHANGED auxVars

\* the store write fails: expect(..) panics, the task ends
TaskWriteFails(t) ==
    /\ ~Crashed
    /\ Writing(t)
    /\ tasks' = [tasks EXCEPT ![t].pc = "aborted"]
    /\ UNCHANGED <<cache, view, boot, cacheVer, prevVer, nInst, lastOp>>
    /\ UNCHANGED storeVars
    /\ UNCHANGED auxVars

SubPending(t, j) ==
    /\ tasks[t].kind = "import"
    /\ j \in DOMAIN tasks[t].subs
    /\ tasks[t].subs[j].st = "pending"

\* an insert sub-task of an import runs its insert_source
SubInsert(t, j) ==
    /\ ~Crashed
    /\ SubPending(t, j)
    /\ CallInsert(tasks[t].subs[j].source)
    /\ tasks' = [tasks EXCEPT ![t].subs[j].st = "done",
                              ![t].subs[j].at = dbVer + 1]
    /\ UNCHANGED <<cache, view, boot, cacheVer, prevVer, nInst, lastOp>>
    /\ UNCHANGED auxVars

\* insert_source fails in a sub-task: expect(..) panics in the sub-task
SubInsertFails(t, j) ==
    /\ ~Crashed
    /\ SubPending(t, j)
    /\ tasks' = [tasks EXCEPT ![t].subs[j].st = "failed"]
    /\ UNCHANGED <<cache, view, boot, cacheVer, prevVer, nInst, lastOp>>
    /\ UNCHANGED storeVars
    /\ UNCHANGED auxVars

Joining(t) ==
    /\ tasks[t].kind = "import"
    /\ tasks[t].pc = "join"

\* The loop `for handle in handles { handle.await.expect(..) }` awaits the
\* handles in order.  It reaches a handle whose sub-task panicked once all
\* handles before it returned Ok: the JoinError makes expect(..) panic.
ImportJoinFails(t) ==
    /\ ~Crashed
    /\ Joining(t)
    /\ \E j \in DOMAIN tasks[t].subs :
          /\ tasks[t].subs[j].st = "failed"
          /\ \A i \in 1 .. j - 1 : tasks[t].subs[i].st = "done"
    /\ tasks' = [tasks EXCEPT ![t].pc = "aborted"]
    /\ UNCHANGED <<cache, view, boot, cacheVer, prevVer, nInst, lastOp>>
    /\ UNCHANGED storeVars
    /\ UNCHANGED auxVars

\* every handle returned Ok: the task goes on to its refresh
ImportJoinEnd(t) ==
    /\ ~Crashed
    /\ Joining(t)
    /\ ImportJoined(tasks[t])
    /\ tasks' = [tasks EXCEPT ![t].pc = "fetch"]
    /\ UNCHANGED <<cache, view, boot, cacheVer, prevVer, nInst, lastOp>>
    /\ UNCHANGED storeVars
    /\ UNCHANGED auxVars

\* get_all_sources(&pool).await: the right-hand side of the cache
\* assignment is evaluated first, no lock is held
TaskFetch(t) ==
    /\ ~Crashed
    /\ tasks[t].pc = "fetch"
    /\ tasks' = [tasks EXCEPT ![t].pc = "install",
                              ![t].snap = GetAllSources(db),
                              ![t].fetchedAt = dbVer,
                              ![t].nref = @ + 1]
    /\ UNCHANGED <<cache, view, boot, cacheVer, prevVer, nInst, lastOp>>
    /\ UNCHANGED storeVars
    /\ UNCHANGED auxVars

\* get_all_sources fails: expect/unwrap panics before the cache is written
TaskFetchFails(t) ==
    /\ ~Crashed
    /\ tasks[t].pc = "fetch"
    /\ tasks' = [tasks EXCEPT ![t].pc = "aborted", ![t].nref = @ + 1]
    /\ UNCHANGED <<cache, view, boot, cacheVer, prevVer, nInst, lastOp>>
    /\ UNCHANGED storeVars
    /\ UNCHANGED auxVars

\* *source_cache.write().unwrap() = snapshot
TaskInstall(t) ==
    /\ ~Crashed
    /\ tasks[t].pc = "install"
    /\ cache' = InstallSnapshot(cache, tasks[t].snap)
    /\ cacheVer' = tasks[t].fetchedAt
    /\ prevVer' = cacheVer
    /\ nInst' = nInst + 1
    /\ tasks' = [tasks EXCEPT ![t].pc = "done"]
    /\ UNCHANGED <<view, boot, lastOp>>
    /\ UNCHANGED storeVars
    /\ UNCHANGED auxVars

Next ==
    \/ ClickSave
    \/ ClickDelete
    \/ ClickEditSave
    \/ Render
    \/ \E t \in DOMAIN tasks : TaskWrite(t)
    \/ \E t \in DOMAIN tasks : TaskWriteFails(t)
    \/ \E t \in DOMAIN tasks : TaskFetch(t)
    \/ \E t \in DOMAIN tasks : TaskFetchFails(t)
    \/ \E t \in DOMAIN tasks : TaskInstall(t)

\* the handlers of the start page and of the listed sources
Spec == Init /\ [][Next]_vars

NextImport ==
    \/ ClickImport
    \/ \E t \in DOMAIN tasks : \E j \in DOMAIN tasks[t].subs : SubInsert(t, j)
    \/ \E t \in DOMAIN tasks : \E j \in DOMAIN tasks[t].subs : SubInsertFails(t, j)
    \/ \E t \in DOMAIN tasks : ImportJoinFails(t)
    \/ \E t \in DOMAIN tasks : ImportJoinEnd(t)
    \/ \E t \in DOMAIN tasks : TaskFetch(t)
    \/ \E t \in DOMAIN tasks : TaskFetchFails(t)
    \/ \E t \in DOMAIN tasks : TaskInstall(t)

\* the Import button; several imports may run at once
SpecImport == Init /\ [][NextImport]_vars

\* SpecApp counts every task against MaxInserts, as ClickImport does: n
\* more tasks may be spawned
Budget(n) == Inserts(tasks) + n <= MaxInserts

AppSave == Budget(1) /\ ClickSave

AppDelete == Budget(2) /\ ClickDelete

AppEditSave == Budget(2) /\ ClickEditSave

NextApp ==
    \/ AppSave
    \/ AppDelete
    \/ AppEditSave
    \/ ClickImport
    \/ \E t \in DOMAIN tasks : TaskWrite(t)
    \/ \E t \in DOMAIN tasks : TaskWriteFails(t)
    \/ \E t \in DOMAIN tasks : \E j \in DOMAIN tasks[t].subs : SubInsert(t, j)
    \/ \E t \in DOMAIN tasks : \E j \in DOMAIN tasks[t].subs : SubInsertFails(t, j)
    \/ \E t \in DOMAIN tasks : ImportJoinFails(t)
    \/ \E t \in DOMAIN tasks : ImportJoinEnd(t)
    \/ \E t \in DOMAIN tasks : TaskFetch(t)
    \/ \E t \in DOMAIN tasks : TaskFetchFails(t)
    \/ \E t \in DOMAIN tasks : TaskInstall(t)

\* the application at rest on a store that holds two rows
InitApp == Init /\ Len(db) = Cardinality(Samples)

\* the mutation handlers and the Import button together
SpecApp == InitApp /\ [][NextApp]_vars

(* ------------------------- Config::get_config -------------------------- *)

\* get_config() is called
GetConfig ==
    /\ call.pc \in {"idle", "done"}
    /\ call' = [call EXCEPT !.pc = "load", !.resets = 0, !.start = cfg,
                            !.foreign = 0, !.res = DefaultConfig]
    /\ UNCHANGED <<cfg, fmt, exported, dataDir, saves, lastOp>>
    /\ UNCHANGED appVars
    /\ UNCHANGED storeVars

\* confy::load returns: Ok ends the call, BadTomlData leads to the reset
ConfigLoad ==
    /\ call.pc = "load"
    /\ LET r == ConfyLoad(cfg)
       IN  /\ cfg' = r.file
           /\ call' = IF r.err = "none"
                      THEN [call EXCEPT !.pc = "done", !.res = r.config]
                      ELSE [call EXCEPT !.pc = "reset"]
    /\ UNCHANGED <<fmt, exported, dataDir, saves, lastOp>>
    /\ UNCHANGED appVars
    /\ UNCHANGED storeVars

\* confy::load returns an error other than BadTomlData: panic!(..)
ConfigLoadFails ==
    /\ call.pc = "load"
    /\ call' = [call EXCEPT !.pc = "panicked"]
    /\ UNCHANGED <<cfg, fmt, exported, dataDir, saves, lastOp>>
    /\ UNCHANGED appVars
    /\ UNCHANGED storeVars

\* the BadTomlData branch: the defaults are stored and get_config calls
\* itself
ConfigReset ==
    /\ call.pc = "reset"
    /\ cfg' = ConfyStore(ResetValue)
    /\ call' = [call EXCEPT !.pc = "load", !.resets = @ + 1]
    /\ UNCHANGED <<fmt, exported, dataDir, saves, lastOp>>
    /\ UNCHANGED appVars
    /\ UNCHANGED storeVars

\* confy::store fails in the BadTomlData branch: expect(..) panics
ConfigResetFails ==
    /\ call.pc = "reset"
    /\ call' = [call EXCEPT !.pc = "panicked"]
    /\ UNCHANGED <<cfg, fmt, exported, dataDir, saves, lastOp>>
    /\ UNCHANGED appVars
    /\ UNCHANGED storeVars

\* The file is changed by someone other than the running get_config:
\* another process or the user's editor, which is how it comes to hold
\* text that does not parse.
FileChanged ==
    /\ call.pc # "panicked"
    /\ call.edits < MaxEdits
    /\ \E f \in FileStates \ {cfg} : cfg' = f
    /\ call' = [call EXCEPT !.edits = @ + 1,
                            !.foreign = IF call.pc = "idle" THEN 0 ELSE @ + 1]
    /\ UNCHANGED <<fmt, exported, dataDir, saves, lastOp>>
    /\ UNCHANGED appVars
    /\ UNCHANGED storeVars

\* the application has not read its config yet; the file is in any state
InitConfig ==
    /\ InitEmpty
    /\ cfg \in FileStates
    /\ call = NoCall
    /\ fmt = NoFormat
    /\ exported = NoExport
    /\ dataDir = EmptyDataDir
    /\ saves = <<>>

NextConfig ==
    \/ GetConfig
    \/ ConfigLoad
    \/ ConfigLoadFails
    \/ ConfigReset
    \/ ConfigResetFails
    \/ FileChanged

SpecConfig == InitConfig /\ [][NextConfig]_vars

(* --------------------------- format, as steps -------------------------- *)

\* source.format(&standard) is called and returns or panics; with the
\* Custom standard it calls Config::get_config() first
Format ==
    /\ fmt.ok
    /\ \E s \in FormatSources, standard \in {"Default", "Custom"} :
          LET run == GetConfigRun(cfg)
              r   == IF standard = "Default"
                     THEN [ok |-> TRUE, out |-> FormatDefault(s)]
                     ELSE FormatCustom(s, run.config.custom_format)
          IN  /\ fmt' = [op |-> "format", source |-> s, standard |-> standard,
                         before |-> cfg,
                         template |-> IF standard = "Custom"
                                      THEN run.config.custom_format ELSE <<>>,
                         io |-> FALSE, ok |-> r.ok, out |-> r.out]
              /\ cfg' = IF standard = "Custom" THEN run.file ELSE cfg
    /\ UNCHANGED <<call, exported, dataDir, saves, lastOp>>
    /\ UNCHANGED appVars
    /\ UNCHANGED storeVars

\* format with the Custom standard, and get_config panics on an I/O error
FormatConfigFails ==
    /\ fmt.ok
    /\ \E s \in FormatSources :
          fmt' = [op |-> "format", source |-> s, standard |-> "Custom",
                  before |-> cfg, template |-> <<>>, io |-> TRUE, ok |-> FALSE,
                  out |-> <<>>]
    /\ UNCHANGED <<cfg, call, exported, dataDir, saves, lastOp>>
    /\ UNCHANGED appVars
    /\ UNCHANGED storeVars

\* the config file when the formatter is used: absent, unparseable, the
\* defaults, or the Custom standard with one of the templates
InitFormat ==
    /\ InitEmpty
    /\ cfg \in {AbsentFile, CorruptFile, ValidFile(DefaultConfig)}
                \cup {ValidFile(CustomConfig(tpl)) : tpl \in Templates}
    /\ call = NoCall
    /\ fmt = NoFormat
    /\ exported = NoExport
    /\ dataDir = EmptyDataDir
    /\ saves = <<>>

NextFormat == Format \/ FormatConfigFails

SpecFormat == InitFormat /\ [][NextFormat]_vars

NextRoundTrip ==
    \/ Export
    \/ ImportExported
    \/ \E t \in DOMAIN tasks : \E j \in DOMAIN tasks[t].subs : SubInsert(t, j)
    \/ \E t \in DOMAIN tasks : \E j \in DOMAIN tasks[t].subs : SubInsertFails(t, j)
    \/ \E t \in DOMAIN tasks : ImportJoinFails(t)
    \/ \E t \in DOMAIN tasks : ImportJoinEnd(t)
    \/ \E t \in DOMAIN tasks : TaskFetch(t)
    \/ \E t \in DOMAIN tasks : TaskFetchFails(t)
    \/ \E t \in DOMAIN tasks : TaskInstall(t)

\* Export, then Import of the exported file
SpecRoundTrip == Init /\ [][NextRoundTrip]_vars

NextExport ==
    \/ ClickSave
    \/ Export
    \/ ExportCreateFails
    \/ ExportWriteFails
    \/ \E t \in DOMAIN tasks : TaskWrite(t)
    \/ \E t \in DOMAIN tasks : TaskFetch(t)
    \/ \E t \in DOMAIN tasks : TaskInstall(t)

\* the Export button, between saves that change the cache
SpecExport == Init /\ [][NextExport]_vars

(* ------------------------ establish_connection ------------------------- *)

\* The application of version v starts: the database file named by
\* db_version!() is created in the data directory if it does not exist, and
\* the pool connects to it.
EstablishConnection ==
    /\ Len(dataDir.runs) < MaxRuns
    /\ \E v \in Versions :
          dataDir' = [files |-> dataDir.files \cup {DbVersion(v)},
                      runs |-> Append(dataDir.runs,
                                  [version |-> v, file |-> DbVersion(v),
                                   created |-> DbVersion(v) \notin dataDir.files,
                                   ok |-> TRUE])]
    /\ UNCHANGED <<cfg, call, fmt, exported, saves, lastOp>>
    /\ UNCHANGED appVars
    /\ UNCHANGED storeVars

\* The file does not exist and create_database returns Err (logged), or
\* SqlitePool::connect returns Err: establish_connection returns the Err.
EstablishConnectionFails ==
    /\ Len(dataDir.runs) < MaxRuns
    /\ \E v \in Versions :
          dataDir' = [dataDir EXCEPT
                         !.runs = Append(@, [version |-> v, file |-> DbVersion(v),
                                             created |-> FALSE, ok |-> FALSE])]
    /\ UNCHANGED <<cfg, call, fmt, exported, saves, lastOp>>
    /\ UNCHANGED appVars
    /\ UNCHANGED storeVars

NextVersion == EstablishConnection \/ EstablishConnectionFails

\* starts of the application in several versions, on one data directory
SpecVersion == InitStore /\ [][NextVersion]_vars

(* --------------------------- settings page ----------------------------- *)

\* what the settings page may hold in app.settings when Save is clicked
Settings ==
    [format_standard : {"Default", "Custom"},
     custom_format : {DefaultConfig.custom_format, SavedConfig.custom_format}]

\* Save on the settings page: the foreground reads the Config with
\* get_config(), sets both fields from app.settings and calls save(), which
\* clones the Config and spawns the task that will store it
SettingsSave ==
    /\ Len(saves) < MaxSaves
    /\ \E st \in Settings :
          LET run == GetConfigRun(cfg)
              config == [run.config EXCEPT
                            !.format_standard = st.format_standard,
                            !.custom_format = st.custom_format]
          IN  /\ cfg' = run.file
              /\ saves' = Append(saves, [config |-> config, pc |-> "pending"])
    /\ UNCHANGED <<call, fmt, exported, dataDir, lastOp>>
    /\ UNCHANGED appVars
    /\ UNCHANGED storeVars

\* a spawned save task runs confy::store(CONFIG_NAME, None, config); the
\* pool runs the spawned tasks in any order
SaveStore(t) ==
    /\ saves[t].pc = "pending"
    /\ cfg' = ConfyStore(saves[t].config)
    /\ saves' = [saves EXCEPT ![t].pc = "done"]
    /\ UNCHANGED <<call, fmt, exported, dataDir, lastOp>>
    /\ UNCHANGED appVars
    /\ UNCHANGED storeVars

\* confy::store returns Err: expect("Error saving config") panics in the
\* task, the file is as it was
SaveStoreFails(t) ==
    /\ saves[t].pc = "pending"
    /\ saves' = [saves EXCEPT ![t].pc = "aborted"]
    /\ UNCHANGED <<cfg, call, fmt, exported, dataDir, lastOp>>
    /\ UNCHANGED appVars
    /\ UNCHANGED storeVars

NextSettings ==
    \/ SettingsSave
    \/ \E t \in DOMAIN saves : SaveStore(t)
    \/ \E t \in DOMAIN saves : SaveStoreFails(t)

\* clicks on Save of the settings page, the config file in any state
SpecSettings == InitConfig /\ [][NextSettings]_vars

(* ------------------------------ claims --------------------------------- *)

Finished(t) == tasks[t].pc = "done"

\* the task holds a snapshot that get_all_sources returned to it
Fetched(t) == tasks[t].pc \in {"install", "done"}

Handler(t) == tasks[t].kind \in {"save", "update", "delete"}

Import(t) == tasks[t].kind = "import"

\* every task that was spawned has finished without a panic
Quiescent ==
    /\ tasks # <<>>
    /\ \A t \in DOMAIN tasks : Finished(t)

\* C1: once all spawned background tasks have finished successfully (and no
\* further click is handled), the cache holds exactly the rows that
\* get_all_sources returns from the store.
C1_CacheConsistentAtRest ==
    Quiescent => SameRows(cache, GetAllSources(db))

\* the new rows of an import's snapshot: those whose id the store did not
\* hold when the import was spawned
NewRows(t) == SelectSeq(tasks[t].snap, LAMBDA r : r.id \notin Ids(tasks[t].base))

\* between the spawn of import t and its fetch, only its own sub-tasks wrote
OnlyOwnInserts(t) ==
    \A v \in tasks[t].spawnVer + 1 .. tasks[t].fetchedAt :
        \E j \in DOMAIN tasks[t].subs : tasks[t].subs[j].at = v

\* C2: when the N sources of an import are inserted by its N parallel
\* sub-tasks and its refresh follows (no other task writing meanwhile), the
\* snapshot it fetched, and the cache while it holds that snapshot, contain
\* exactly the rows that existed before plus N new rows, one per submitted
\* source, and all ids are pairwise distinct.
C2_ConcurrentInsert ==
    \A t \in DOMAIN tasks :
        (Import(t) /\ Fetched(t) /\ OnlyOwnInserts(t)) =>
            /\ \A r \in Range(tasks[t].base) : r \in Range(tasks[t].snap)
            /\ Len(tasks[t].snap) = Len(tasks[t].base) + Len(tasks[t].subs)
            /\ Len(NewRows(t)) = Len(tasks[t].subs)
            /\ \A s \in Samples :
                  CountFields(NewRows(t), Fields(s))
                      = Cardinality({j \in DOMAIN tasks[t].subs :
                                        Fields(tasks[t].subs[j].source) = Fields(s)})
            /\ Cardinality(Ids(tasks[t].snap)) = Len(tasks[t].snap)
            /\ (Finished(t) /\ cacheVer = tasks[t].fetchedAt) =>
                  SameRows(cache, tasks[t].snap)

\* an import of two entries into a store that held rows has run alone and
\* its snapshot is in the cache
C2_Witness ==
    \E t \in DOMAIN tasks :
        /\ Import(t) /\ Finished(t) /\ OnlyOwnInserts(t)
        /\ Len(tasks[t].subs) >= 2
        /\ tasks[t].base # <<>>
        /\ cache = tasks[t].snap

\* C3: an import issues its refresh (get_all_sources, then the cache write)
\* only after every one of its insert sub-tasks has completed, and it issues
\* exactly one refresh.
C3_ImportBatchesRefresh ==
    \A t \in DOMAIN tasks :
        Import(t) =>
            /\ tasks[t].nref <= 1
            /\ tasks[t].pc \in {"fetch", "install", "done"} =>
                  \A j \in DOMAIN tasks[t].subs : tasks[t].subs[j].st = "done"
            /\ Fetched(t) =>
                  /\ tasks[t].nref = 1
                  /\ \A j \in DOMAIN tasks[t].subs :
                        tasks[t].subs[j].at <= tasks[t].fetchedAt

\* an import of two entries has finished
C3_Witness ==
    \E t \in DOMAIN tasks :
        /\ Import(t) /\ Finished(t)
        /\ Len(tasks[t].subs) >= 2

\* the snapshots get_all_sources has returned to tasks, and the rows the
\* cache started with
Snapshots == {boot} \cup {tasks[t].snap : t \in {u \in DOMAIN tasks : Fetched(u)}}

\* C4: whatever refreshes run, a read of the cache returns one complete
\* snapshot: the sequence a single get_all_sources returned (or the rows the
\* cache started with), never a mix of rows of two snapshots.
C4_AtomicCacheSwap ==
    /\ view \in Snapshots
    /\ cache \in Snapshots

\* the foreground has read the snapshot a task installed while another task
\* stands before its cache write with a different snapshot
C4_Witness ==
    \E t, u \in DOMAIN tasks :
        /\ Finished(t) /\ view = tasks[t].snap /\ view # boot
        /\ tasks[u].pc = "install" /\ tasks[u].snap # view

\* C5: in a mutation handler's task the store write completes before the
\* task fetches get_all_sources, so the snapshot it installs is of a store
\* version at or after its own write; the snapshot of the delete task for
\* id k holds no row with id k.
C5_WriteBeforeRefresh ==
    \A t \in DOMAIN tasks :
        Handler(t) =>
            /\ tasks[t].pc \in {"fetch", "install", "done"} => tasks[t].wroteAt >= 1
            /\ Fetched(t) =>
                  /\ tasks[t].fetchedAt >= tasks[t].wroteAt
                  /\ tasks[t].kind = "delete" =>
                        tasks[t].id \notin Ids(tasks[t].snap)

\* the delete task for a row the store held has installed its snapshot
C5_Witness ==
    \E t \in DOMAIN tasks :
        /\ tasks[t].kind = "delete" /\ Finished(t)
        /\ tasks[t].id \in Ids(boot)
        /\ cache = tasks[t].snap

\* C10: a refresh whose snapshot is of the same store version as the
\* snapshot in the cache (no write to the store in between) leaves the
\* cache with the same rows, field by field.
C10_RefreshIdempotent ==
    [][(nInst' = nInst + 1 /\ cacheVer' = cacheVer) => SameRows(cache', cache)]_vars

\* two refreshes in a row fetched the same version of a store with rows
C10_Witness ==
    /\ nInst >= 2
    /\ prevVer = cacheVer
    /\ cache # <<>>

(* ----------------------- claims about the store ------------------------ *)

\* the last store call was `op` and its statement ran
Ran(op) == lastOp.op = op /\ ~lastOp.io

NoDuplicates(q) == \A i, j \in DOMAIN q : i # j => q[i] # q[j]

\* C6: insert ignores the id of its input (the sentinel and ids that rows
\* hold or held included) and gives the new row an id chosen by the store;
\* all rows have pairwise distinct ids, and an id that was handed out once
\* is never handed out again, also after its row was deleted.
C6_StoreAssignedIds ==
    /\ Cardinality(Ids(db)) = Len(db)
    /\ NoDuplicates(issued)
    /\ Ran("insert") =>
          /\ Len(db) = Len(lastOp.before) + 1
          /\ SubSeq(db, 1, Len(lastOp.before)) = lastOp.before
          /\ Fields(db[Len(db)]) = Fields(lastOp.source)
          /\ db[Len(db)].id = StoreNextId(lastOp.before, lastOp.seqBefore)
          /\ db[Len(db)].id \notin Ids(lastOp.before)
          /\ db[Len(db)].id \notin Range(SubSeq(issued, 1, Len(issued) - 1))

\* an insert whose input carried the id of a deleted row, into a store with
\* rows
C6_Witness ==
    /\ Ran("insert")
    /\ lastOp.before # <<>>
    /\ lastOp.source.id \in Range(issued) \ Ids(lastOp.before)
    /\ lastOp.source.id # db[Len(db)].id

\* C7: delete(id) on a store with no row of that id returns success and
\* leaves the result of get_all_sources unchanged; delete(id) of an existing
\* id removes exactly that row and leaves every other row unchanged.
C7_DeleteFrame ==
    Ran("delete") =>
        /\ lastOp.res = "ok"
        /\ lastOp.id \notin Ids(lastOp.before) =>
              GetAllSources(db) = GetAllSources(lastOp.before)
        /\ lastOp.id \in Ids(lastOp.before) =>
              /\ Len(db) = Len(lastOp.before) - 1
              /\ lastOp.id \notin Ids(db)
              /\ \A r \in Range(lastOp.before) : r.id # lastOp.id => r \in Range(db)

\* a delete of the id of a row that was deleted before, on a store with rows
C7_Witness ==
    /\ Ran("delete")
    /\ lastOp.before # <<>>
    /\ lastOp.id \notin Ids(lastOp.before)
    /\ lastOp.id \in Range(issued)

\* C8 as claimed: update(id, source) with an id that no row has returns an
\* error and leaves the store unchanged.
C8_UpdateMissingFails ==
    (lastOp.op = "update" /\ lastOp.id \notin Ids(lastOp.before)) =>
        /\ lastOp.res = "err"
        /\ db = lastOp.before

\* C8 amended: update(id, source) with an id that no row has leaves the
\* store unchanged and returns success; it returns an error only when the
\* statement itself fails.
C8_UpdateMissingIsNoOp ==
    (lastOp.op = "update" /\ lastOp.id \notin Ids(lastOp.before)) =>
        /\ db = lastOp.before
        /\ lastOp.res = (IF lastOp.io THEN "err" ELSE "ok")

\* an update of an id that no row of a store with rows has
C8_Witness ==
    /\ Ran("update")
    /\ lastOp.before # <<>>
    /\ lastOp.id \notin Ids(lastOp.before)
    /\ lastOp.res = "ok"

\* C9: update(id, source) on an existing id replaces title, url, author,
\* published_date, viewed_date, published_date_unknown and comment of the
\* row with that id by those of source, keeps that row's id whatever
\* source.id is, and leaves every other row and the number of rows unchanged.
C9_UpdateFrame ==
    (Ran("update") /\ lastOp.id \in Ids(lastOp.before)) =>
        /\ Len(db) = Len(lastOp.before)
        /\ \A i \in DOMAIN db :
              IF lastOp.before[i].id = lastOp.id
              THEN /\ db[i].id = lastOp.id
                   /\ db[i].title = lastOp.source.title
                   /\ db[i].url = lastOp.source.url
                   /\ db[i].author = lastOp.source.author
                   /\ db[i].published_date = lastOp.source.published_date
                   /\ db[i].viewed_date = lastOp.source.viewed_date
                   /\ db[i].published_date_unknown
                        = lastOp.source.published_date_unknown
                   /\ db[i].comment = lastOp.source.comment
              ELSE db[i] = lastOp.before[i]

\* an update of one of two rows by a source that carries another id and
\* other column values
C9_Witness ==
    /\ Ran("update")
    /\ Len(lastOp.before) >= 2
    /\ \E i \in DOMAIN lastOp.before :
          /\ lastOp.before[i].id = lastOp.id
          /\ Fields(lastOp.before[i]) # Fields(lastOp.source)
    /\ lastOp.source.id # lastOp.id

(* --------------------- claims about export and import ------------------ *)

\* import t reads the file that the last export wrote
OfExport(t) ==
    /\ exported.written
    /\ [j \in DOMAIN tasks[t].subs |-> tasks[t].subs[j].source] = ExportedSources

\* C11: when the Sources of the cache are exported (Source -> Entry ->
\* JSON) and the file is imported (JSON -> Entry -> Source -> parallel
\* inserts), the rows the import stored equal the exported Sources in
\* title, url, author, published_date, viewed_date, published_date_unknown
\* and comment, one row per exported Source; only the ids may differ.
C11_RoundTrip ==
    \A t \in DOMAIN tasks :
        (Import(t) /\ Fetched(t) /\ OnlyOwnInserts(t) /\ OfExport(t)) =>
            /\ Len(NewRows(t)) = Len(exported.sources)
            /\ \A r \in Range(NewRows(t)) \cup Range(exported.sources) :
                  CountFields(NewRows(t), Fields(r))
                      = CountFields(exported.sources, Fields(r))

\* two Sources with different dates, one with a leap day, were exported
\* and their import has finished
C11_Witness ==
    \E t \in DOMAIN tasks :
        /\ Import(t) /\ Finished(t) /\ OnlyOwnInserts(t) /\ OfExport(t)
        /\ Len(exported.sources) >= 2
        /\ \E r \in Range(exported.sources) : r.viewed_date = Date(2020, 2, 29)
        /\ \E r \in Range(NewRows(t)) : r.id \notin Ids(exported.sources)

(* ------------------------ claims about the config ---------------------- *)

\* the running or last call of get_config began with a file that does not
\* parse, and nobody else has changed the file since
CorruptAtCall == call.start = CorruptFile /\ call.foreign = 0

\* C12: when the config file exists but does not parse, get_config returns
\* the default Config (format_standard = Default) and leaves the file
\* overwritten with the serialized defaults.
C12_CorruptConfigRecovery ==
    (call.pc = "done" /\ CorruptAtCall) =>
        /\ call.res = DefaultConfig
        /\ call.res.format_standard = "Default"
        /\ cfg = ValidFile(DefaultConfig)

\* a call that began with an unparseable file has returned after its reset
C12_Witness ==
    /\ call.pc = "done"
    /\ CorruptAtCall
    /\ call.resets = 1

\* C13: one call of get_config resets the file at most once; when the load
\* after the reset fails again, the call ends fatally and does not reset
\* again.
C13_AtMostOneReset ==
    /\ call.resets <= 1
    /\ call.resets >= 1 => call.pc # "reset"

(* ----------------------- claims about Source::format ------------------- *)

\* the last step was a call of format with the given standard in which
\* get_config did not panic
Formatted(standard) ==
    fmt.op = "format" /\ fmt.standard = standard /\ ~fmt.io

StartsWith(text, head) ==
    /\ Len(text) >= Len(head)
    /\ SubSeq(text, 1, Len(head)) = head

\* the text holds "(", four digits and ")" in a row
HasYearSegment(text) ==
    \E i \in DOMAIN text :
        /\ i + 5 <= Len(text)
        /\ text[i] = "(" /\ text[i + 5] = ")"
        /\ \A k \in 1 .. 4 : IsDigit(text[i + k])

\* "[<id>] " and the author position of the Default standard
DefaultHead(s) ==
    <<"[">> \o I64ToString(s.id) \o <<"]", " ">>
        \o (IF s.author = <<>> THEN <<"Unbekannt">> ELSE s.author)

\* C15: with published_date_unknown = true, format(s, Default) has no
\* parenthesized year segment: the colon before the title follows the
\* author segment directly; with published_date_unknown = false it has
\* " (<year>)" with the year of published_date between the author segment
\* and the colon before the title.
C15_DefaultYearSegment ==
    Formatted("Default") =>
        LET s    == fmt.source
            rest == SubSeq(fmt.out, Len(DefaultHead(s)) + 1, Len(fmt.out))
        IN  /\ fmt.ok
            /\ s.published_date_unknown =>
                  /\ StartsWith(rest, <<":", " ">> \o s.title)
                  /\ ~HasYearSegment(fmt.out)
            /\ ~s.published_date_unknown =>
                  StartsWith(rest, <<" ", "(">> \o Digits(s.published_date.y, 4)
                                       \o <<")", ":", " ">> \o s.title)

\* a Source with an author and an unknown publication date was formatted
\* with the Default standard
C15_Witness ==
    /\ Formatted("Default")
    /\ fmt.source.published_date_unknown
    /\ fmt.source.author # <<>>

\* C16: format(s, Default) has "Unbekannt" in the author position directly
\* after "[<id>] " when the author is empty, and the author text there when
\* it is not.
C16_DefaultEmptyAuthor ==
    Formatted("Default") =>
        /\ fmt.ok
        /\ StartsWith(fmt.out, DefaultHead(fmt.source))
        /\ fmt.out[Len(DefaultHead(fmt.source)) + 1] \in {":", " "}

\* a Source with an empty author and a negative id was formatted with the
\* Default standard
C16_Witness ==
    /\ Formatted("Default")
    /\ fmt.source.author = <<>>
    /\ fmt.source.id < 0

\* the template with every {P_DATE(fmt)} placeholder replaced by the
\* literal "Unknown"
MarkUnknown(template) == Substitute(template, "P_DATE", <<"Unknown">>)

RenderFieldsOnce(template, s) ==
    LET RECURSIVE Go(_)
        Go(i) ==
            IF i > Len(template) THEN <<>>
            ELSE IF MatchLen(template, i, "INDEX") > 0
                 THEN I64ToString(s.id) \o Go(i + 3)
            ELSE IF MatchLen(template, i, "TITLE") > 0 THEN s.title \o Go(i + 3)
            ELSE IF MatchLen(template, i, "URL") > 0 THEN s.url \o Go(i + 3)
            ELSE IF MatchLen(template, i, "AUTHOR") > 0 THEN s.author \o Go(i + 3)
            ELSE <<template[i]>> \o Go(i + 1)
    IN  Go(1)

\* C17: the Custom standard replaces each {INDEX} of the template by the id
\* as decimal text and each {TITLE}, {URL}, {AUTHOR} by the field text,
\* character for character, for every field value, and keeps all other
\* template text.
C17_CustomFieldsVerbatim ==
    (Formatted("Custom") /\ fmt.ok) =>
        FieldStage(fmt.template, fmt.source)
            = RenderFieldsOnce(fmt.template, fmt.source)

\* the pattern of the date placeholder that starts at index i
OwnFormat(template, i, name) ==
    LET f == SubSeq(template, i + 3, i + MatchLen(template, i, name) - 3)
    IN  IF f = <<>> THEN DefaultDateFormat ELSE f

\* every date placeholder of the template holds a date pattern
OwnFormatsOk(template) ==
    \A i \in DOMAIN template : \A name \in DateNames :
        MatchLen(template, i, name) > 0 => StrftimeOk(OwnFormat(template, i, name))

\* the template with every {P_DATE(fmt)} and {V_DATE(fmt)} replaced, in one
\* pass, by the date rendered with the fmt of that occurrence
RenderDatesOnce(template, s) ==
    LET RECURSIVE Go(_)
        Go(i) ==
            IF i > Len(template) THEN <<>>
            ELSE IF MatchLen(template, i, "P_DATE") > 0
                 THEN Strftime(s.published_date, OwnFormat(template, i, "P_DATE"))
                          \o Go(i + MatchLen(template, i, "P_DATE"))
            ELSE IF MatchLen(template, i, "V_DATE") > 0
                 THEN Strftime(s.viewed_date, OwnFormat(template, i, "V_DATE"))
                          \o Go(i + MatchLen(template, i, "V_DATE"))
            ELSE <<template[i]>> \o Go(i + 1)
    IN  Go(1)

\* C18: the Custom standard replaces each {P_DATE(fmt)} and {V_DATE(fmt)}
\* by the published (viewed) date rendered with the fmt of that same
\* occurrence, the default pattern when it is empty, also when the
\* template has several occurrences of one kind with different fmt.
C18_CustomOwnDateFormat ==
    (Formatted("Custom") /\ fmt.ok /\ ~fmt.source.published_date_unknown
        /\ OwnFormatsOk(fmt.template)) =>
        fmt.out = FormatCustom(fmt.source, RenderDatesOnce(fmt.template, fmt.source)).out

\* C19: format with the Custom standard returns a string for every Source
\* and every template, also when a sub-pattern is no date pattern; it
\* never panics.
C19_FormatNeverFails ==
    Formatted("Custom") => fmt.ok

\* C20: a call of format, with either standard and whatever the config file
\* holds, leaves the config file, the store and the cache unchanged.
C20_FormatIsPure ==
    (fmt.op = "format" /\ ~fmt.io) =>
        /\ cfg = fmt.before
        /\ db = <<>>
        /\ cache = <<>>

\* a click on Export has just ended in a failure to create or to write the
\* file
ExportFailed ==
    /\ exported' # exported
    /\ exported'.res \in {"create_failed", "write_failed"}

\* C21: whenever an export fails, because the file cannot be created or
\* because it cannot be written, the handler ends without a panic and the
\* cache and the store are as before.
C21_ExportFailureSilent ==
    [][ExportFailed =>
          /\ ~Crashed'
          /\ cache' = cache
          /\ db' = db
          /\ seq' = seq]_vars

SameMajorMinor(a, b) == a.major = b.major /\ a.minor = b.minor

\* C22: two starts of the application resolve to the same database file
\* name exactly if their versions have the same major and the same minor
\* number, whatever the number of digits of either.
C22_VersionedDbFile ==
    \A i, j \in DOMAIN dataDir.runs :
        SameMajorMinor(dataDir.runs[i].version, dataDir.runs[j].version)
            <=> dataDir.runs[i].file = dataDir.runs[j].file

\* a task of the background pool (update_source_cache runs on the
\* foreground thread)
Background(t) == tasks[t].kind # "refresh"

\* in this step a store operation of background task t has failed: its
\* own write or get_all_sources, or the insert of one of its sub-tasks
\* that its join loop then meets
FailsNow(t) ==
    /\ Background(t)
    /\ tasks[t].pc # "aborted"
    /\ tasks'[t].pc = "aborted"

SubFailsNow(t, j) ==
    /\ tasks[t].subs[j].st = "pending"
    /\ tasks'[t].subs[j].st = "failed"

\* the step leaves the cache, the foreground and every task but t alone
OnlyEnds(t) ==
    /\ cache' = cache
    /\ ~Crashed'
    /\ Len(tasks') = Len(tasks)
    /\ \A u \in DOMAIN tasks : u # t => tasks'[u] = tasks[u]

\* the task that a failure ended stays ended: it issues no further write,
\* get_all_sources or cache write (the sub-tasks that an import has spawned
\* are tasks of their own and run on)
Ended(t) ==
    /\ tasks'[t].pc = "aborted"
    /\ tasks'[t].wroteAt = tasks[t].wroteAt
    /\ tasks'[t].nref = tasks[t].nref
    /\ tasks'[t].snap = tasks[t].snap

\* C23: when a store operation fails in a mutation handler's background
\* task or in an insert sub-task of an import, the task ends there: the
\* cache keeps its snapshot, the process and all other tasks go on, the
\* ended task never runs again (no retry, no cache write), and an import
\* with a failed sub-task never reaches its refresh.
C23_StoreFailureEndsTask ==
    [][\A t \in DOMAIN tasks :
          /\ FailsNow(t) => OnlyEnds(t)
          /\ (Background(t) /\ tasks[t].pc = "aborted") => Ended(t)
          /\ \A j \in DOMAIN tasks[t].subs :
                /\ SubFailsNow(t, j) =>
                      /\ OnlyEnds(t)
                      /\ tasks'[t] = [tasks[t] EXCEPT !.subs[j].st = "failed"]
                /\ tasks[t].subs[j].st = "failed" =>
                      /\ tasks'[t].subs[j] = tasks[t].subs[j]
                      /\ tasks'[t].pc \in {"join", "aborted"}]_vars

\* a handler's task was ended by a store failure, an import was ended by
\* the failed insert of a sub-task, the cache holds what it held at start
\* and the process runs
C23_Witness ==
    /\ ~Crashed
    /\ cache = boot
    /\ \E t, u \in DOMAIN tasks :
          /\ Handler(t) /\ tasks[t].pc = "aborted"
          /\ Import(u) /\ tasks[u].pc = "aborted"
          /\ \E j \in DOMAIN tasks[u].subs : tasks[u].subs[j].st = "failed"

\* task t stands at, or has run, a store operation
InStore(t) ==
    \/ tasks[t].pc \in {"write", "fetch", "install"}
    \/ tasks[t].wroteAt >= 1
    \/ tasks[t].nref >= 1

\* C24: every store operation (insert, update, delete, and the
\* get_all_sources of a refresh) is run by a task of the background pool;
\* the foreground thread never runs one nor waits for one.
C24_ForegroundIsolation ==
    \A t \in DOMAIN tasks : InStore(t) => Background(t)

\* in this step task t gets the result of its get_all_sources
FetchesNow(t) == tasks[t].pc = "fetch" /\ tasks'[t].pc = "install"

\* C25: the cache only ever changes by taking the rows that one
\* get_all_sources returned: every snapshot a task holds is the rows the
\* store held at the instant of its fetch, a task keeps its snapshot as it
\* is, and each cache write installs exactly the snapshot of the task that
\* writes.  So the cache is its initial value or the rows of the store at
\* one earlier instant.
C25_CacheIsPastSnapshot ==
    [][/\ \A t \in DOMAIN tasks :
              /\ FetchesNow(t) =>
                    /\ tasks'[t].snap = GetAllSources(db)
                    /\ tasks'[t].fetchedAt = dbVer
              /\ Fetched(t) =>
                    /\ tasks'[t].snap = tasks[t].snap
                    /\ tasks'[t].fetchedAt = tasks[t].fetchedAt
       /\ (cache' # cache \/ nInst' # nInst) =>
              \E t \in DOMAIN tasks :
                  /\ tasks[t].pc = "install"
                  /\ tasks'[t].pc = "done"
                  /\ cache' = tasks[t].snap
                  /\ cacheVer' = tasks[t].fetchedAt
                  /\ cacheVer' <= dbVer]_vars

\* the cache holds the snapshot of a finished task that is neither the rows
\* at start nor the rows the store holds now
C25_Witness ==
    \E t \in DOMAIN tasks :
        /\ Finished(t)
        /\ cache = tasks[t].snap
        /\ cacheVer = tasks[t].fetchedAt
        /\ cacheVer < dbVer
        /\ cache # boot
        /\ ~SameRows(cache, GetAllSources(db))

\* C26: the cache is never overwritten by a snapshot that was fetched from
\* an older version of the store than the snapshot it holds.
C26_CacheNeverRegresses == prevVer <= cacheVer

\* the text holds no placeholder: no match of any of the six patterns
NoToken(text) ==
    \A i \in DOMAIN text :
        /\ \A k \in DOMAIN FieldNames : MatchLen(text, i, FieldNames[k]) = 0
        /\ \A name \in DateNames : MatchLen(text, i, name) = 0

\* what the code inserts for the placeholder `name` that matched as `whole`
Replacement(template, s, name, whole) ==
    Expand(CASE name = "INDEX"  -> I64ToString(s.id)
             [] name = "TITLE"  -> s.title
             [] name = "URL"    -> s.url
             [] name = "AUTHOR" -> s.author
             [] name = "P_DATE" -> PublishedText(s, DateFormatOf(template, "P_DATE"))
             [] OTHER -> Strftime(s.viewed_date, DateFormatOf(template, "V_DATE")),
           whole)

\* the six names
PlaceholderNames == {FieldNames[k] : k \in DOMAIN FieldNames} \cup DateNames

\* single-pass substitution: the original template is scanned once from
\* left to right, every placeholder found is replaced by what the code
\* inserts for it, and inserted text is not scanned again
SinglePass(template, s) ==
    LET RECURSIVE Go(_)
        Go(i) ==
            IF i > Len(template) THEN <<>>
            ELSE IF \E name \in PlaceholderNames : MatchLen(template, i, name) > 0
                 THEN LET name == CHOOSE nm \in PlaceholderNames :
                                      MatchLen(template, i, nm) > 0
                          n == MatchLen(template, i, name)
                      IN  Replacement(template, s, name, SubSeq(template, i, i + n - 1))
                              \o Go(i + n)
            ELSE <<template[i]>> \o Go(i + 1)
    IN  Go(1)

\* C27: for every template and every Source whose title, url and author
\* hold no placeholder, the sequential substitution (INDEX, TITLE, URL,
\* AUTHOR, P_DATE, V_DATE) gives the result of the single-pass
\* substitution of the original template.
C27_SubstitutionOrderIndependent ==
    (Formatted("Custom") /\ fmt.ok
        /\ NoToken(fmt.source.title) /\ NoToken(fmt.source.url)
        /\ NoToken(fmt.source.author)) =>
        fmt.out = SinglePass(fmt.template, fmt.source)

\* every save that was issued has completed its write, and there were two
\* at least
SavesCompleted ==
    /\ Len(saves) >= 2
    /\ \A t \in DOMAIN saves : saves[t].pc = "done"

\* C28: once the writes of all issued saves have completed, the config
\* file holds the Config of the save that was issued last: its
\* format_standard and its custom_format.
C28_SaveOrdering ==
    SavesCompleted =>
        /\ cfg.st = "valid"
        /\ cfg.val.format_standard = saves[Len(saves)].config.format_standard
        /\ cfg.val.custom_format = saves[Len(saves)].config.custom_format

====
